---- MODULE Spec2Model ----
(***************************************************************************)
(* State-machine model of the Boggle solver in src/src/main.rs:            *)
(* main (argument validation), BoggleSolver::new (dictionary loading into  *)
(* a trie), BoggleSolver::solve (row-major scan, ranking, cap) and         *)
(* BoggleSolver::dfs (backtracking search with an explicit call stack).    *)
(*                                                                         *)
(* A char is its Unicode scalar value; a string is a sequence of chars.    *)
(* Grid coordinates are 0-based as in the code; TLA+ sequences are 1-based *)
(* so cell (r, c) is board[r + 1][c + 1].                                  *)
(***************************************************************************)
EXTENDS Integers, Sequences, FiniteSets, TLC

VARIABLES
    pc,           \* "main" | "usage" | "row_error" | "new" | "load_error" |
                  \* "ready" | "solve" | "done" | "panic"
    args,         \* env::args(): program path followed by the arguments
    dict_ok,      \* whether File::open("words.txt") succeeds
    words_txt,    \* the lines of the dictionary file (valid UTF-8)
    line_no,      \* number of lines BoggleSolver::new has consumed
    board,        \* Vec<Vec<char>>
    trie,         \* the TrieNode tree, nodes as ids
    rows, cols,   \* BoggleSolver.rows, BoggleSolver.cols
    visited,      \* solve's visited mask, visited[r + 1][c + 1]
    found_words,  \* solve's HashSet<String>
    start,        \* number of top-level traversals solve has begun (row-major)
    stack,        \* the chain of active dfs calls, innermost last
    result        \* what solve returns: [count, longest_6]

vars == <<pc, args, dict_ok, words_txt, line_no, board, trie, rows, cols, visited,
          found_words, start, stack, result>>

----------------------------------------------------------------------------
(* Bounds of the model *)

\* Boards of the component specification have at most MaxCells cells.
MaxCells == 4
\* Dictionary files of the component specification have at most MaxLines lines.
MaxLines == 2
\* Dictionary files of the program specification hold the three words of the
\* example and any of the first MaxExtra additional lines.
MaxExtra == 5

(* Program constants *)
MinWordLen == 3
MaxWordLen == 16
Cap == 6
ArgCount == 5
RowLen == 4
NoNode == -1

----------------------------------------------------------------------------
(* Strings: str::len, str::trim, str::to_uppercase *)

\* char::len_utf8
Utf8Len(ch) ==
    IF ch < 128 THEN 1 ELSE IF ch < 2048 THEN 2 ELSE IF ch < 65536 THEN 3 ELSE 4

\* str::len: the length in bytes of the UTF-8 encoding
RECURSIVE ByteLen(_)
ByteLen(s) == IF s = <<>> THEN 0 ELSE Utf8Len(Head(s)) + ByteLen(Tail(s))

\* char::is_whitespace, on the characters the model uses (space, tab)
IsWhitespace(ch) == ch \in {32, 9}

RECURSIVE TrimStart(_)
TrimStart(s) ==
    IF s # <<>> /\ IsWhitespace(Head(s)) THEN TrimStart(Tail(s)) ELSE s

RECURSIVE TrimEnd(_)
TrimEnd(s) ==
    IF s # <<>> /\ IsWhitespace(s[Len(s)])
    THEN TrimEnd(SubSeq(s, 1, Len(s) - 1)) ELSE s

\* str::trim
Trim(s) == TrimEnd(TrimStart(s))

\* char::to_uppercase, on the characters the model uses: a-z, e-acute (233),
\* sharp s (223, two chars "SS"), long s (383, "S"); every other char of the
\* model (A-Z, digits, E-acute, U+1F600) maps to itself.
ToUppercaseChar(ch) ==
    IF ch >= 97 /\ ch <= 122 THEN <<ch - 32>>
    ELSE IF ch = 233 THEN <<201>>
    ELSE IF ch = 223 THEN <<83, 83>>
    ELSE IF ch = 383 THEN <<83>>
    ELSE <<ch>>

\* str::to_uppercase
RECURSIVE ToUppercase(_)
ToUppercase(s) ==
    IF s = <<>> THEN <<>> ELSE ToUppercaseChar(Head(s)) \o ToUppercase(Tail(s))

----------------------------------------------------------------------------
(* TrieNode: node ids 0 .. size-1, the root is 0; an edge <<n, ch, m>> says *)
(* that node n's children map holds ch -> m; is_word is the set of nodes    *)
(* whose flag is set.                                                       *)

Root == 0

EmptyTrie == [size |-> 1, edges |-> {}, is_word |-> {}]

\* node.children.get(&ch)
Child(t, n, ch) ==
    IF \E e \in t.edges : e[1] = n /\ e[2] = ch
    THEN (CHOOSE e \in t.edges : e[1] = n /\ e[2] = ch)[3]
    ELSE NoNode

\* `node.children.insert(c, TrieNode::default())` in place of
\* `entry(c).or_default()`: an existing child is replaced by a fresh one.
RECURSIVE InsertOverwriteFrom(_, _, _)
InsertOverwriteFrom(t, n, word) ==
    IF word = <<>> THEN [t EXCEPT !.is_word = @ \cup {n}]
    ELSE LET ch == Head(word)
             id == t.size
             kept == {e \in t.edges : ~(e[1] = n /\ e[2] = ch)}
         IN InsertOverwriteFrom(
                [t EXCEPT !.size = id + 1, !.edges = kept \cup {<<n, ch, id>>}],
                id, Tail(word))

InsertOverwrite(t, word) == InsertOverwriteFrom(t, Root, word)

\* The loop of TrieNode::insert from node n on: entry(c).or_default()
RECURSIVE InsertFrom(_, _, _)
InsertFrom(t, n, word) ==
    IF word = <<>> THEN [t EXCEPT !.is_word = @ \cup {n}]
    ELSE LET ch == Head(word)
             existing == Child(t, n, ch)
         IN IF existing # NoNode
            THEN InsertFrom(t, existing, Tail(word))
            ELSE LET id == t.size
                 IN InsertFrom(
                        [t EXCEPT !.size = id + 1,
                                  !.edges = @ \cup {<<n, ch, id>>}],
                        id, Tail(word))

\* TrieNode::insert
Insert(t, word) == InsertFrom(t, Root, word)

----------------------------------------------------------------------------
(* BoggleSolver::new *)

\* The length filter of the loading loop, on the trimmed line
Accepted(trimmed) ==
    ByteLen(trimmed) >= MinWordLen /\ ByteLen(trimmed) <= MaxWordLen

\* One iteration of the loading loop
LoadLine(t, line) ==
    LET trimmed == Trim(line)
    IN IF Accepted(trimmed) THEN Insert(t, ToUppercase(trimmed)) ELSE t

----------------------------------------------------------------------------
(* BoggleSolver::dfs *)

\* The loops with the diagonal neighbours left out
OffsetsOrthogonal == << <<-1, 0>>, <<0, -1>>, <<0, 1>>, <<1, 0>> >>

\* The order of the 8 recursive calls: dr in -1..=1, dc in -1..=1, (0,0) skipped
Offsets ==
    << <<-1, -1>>, <<-1, 0>>, <<-1, 1>>, <<0, -1>>, <<0, 1>>,
       <<1, -1>>, <<1, 0>>, <<1, 1>> >>

\* The first return of dfs without the visited test
BlockedBoundsOnly(r, c, mask) == r < 0 \/ r >= rows \/ c < 0 \/ c >= cols

\* The condition of the first return of dfs; || evaluates left to right, so
\* the mask is read only for coordinates inside rows x cols
Blocked(r, c, mask) ==
    IF r < 0 \/ r >= rows \/ c < 0 \/ c >= cols THEN TRUE
    ELSE mask[r + 1][c + 1]

\* The assignment left out
MarkNothing(mask, r, c) == mask

\* visited[r][c] = true
Mark(mask, r, c) == [mask EXCEPT ![r + 1][c + 1] = TRUE]

\* The assignment left out
UnmarkNothing(mask, r, c) == mask

\* visited[r][c] = false
Unmark(mask, r, c) == [mask EXCEPT ![r + 1][c + 1] = FALSE]

----------------------------------------------------------------------------
(* BoggleSolver::solve: ranking and cap *)

\* Lexicographic order of strings (String::cmp): byte-wise on UTF-8, which is
\* the order of the scalar values
RECURSIVE LexLess(_, _)
LexLess(a, b) ==
    IF b = <<>> THEN FALSE
    ELSE IF a = <<>> THEN TRUE
    ELSE IF Head(a) # Head(b) THEN Head(a) < Head(b)
    ELSE LexLess(Tail(a), Tail(b))

\* a.len().cmp(&b.len()).then(a.cmp(b)): shorter first
BeforeShorterFirst(a, b) ==
    ByteLen(a) < ByteLen(b) \/ (ByteLen(a) = ByteLen(b) /\ LexLess(a, b))

\* The comparator of sort_by: b.len().cmp(&a.len()).then(a.cmp(b)) is Less
Before(a, b) ==
    ByteLen(b) < ByteLen(a) \/ (ByteLen(a) = ByteLen(b) /\ LexLess(a, b))

\* Insertion of w into a sorted sequence, after every element not after it
RECURSIVE InsertSorted(_, _)
InsertSorted(sorted, w) ==
    IF sorted = <<>> THEN <<w>>
    ELSE IF Before(w, Head(sorted)) THEN <<w>> \o sorted
    ELSE <<Head(sorted)>> \o InsertSorted(Tail(sorted), w)

\* sorted_words.sort_by(...): a stable sort of the collected sequence
RECURSIVE SortBy(_)
SortBy(ws) ==
    IF ws = <<>> THEN <<>>
    ELSE InsertSorted(SortBy(SubSeq(ws, 1, Len(ws) - 1)), ws[Len(ws)])

\* found_words.into_iter().collect(): the orders a HashSet may iterate in
RECURSIVE Orders(_)
Orders(S) ==
    IF S = {} THEN {<<>>}
    ELSE UNION {{<<x>> \o p : p \in Orders(S \ {x})} : x \in S}

\* The length taken after take(6)
FoundLenAfterTake(found) ==
    IF Cardinality(found) > Cap THEN Cap ELSE Cardinality(found)

\* found_words.len()
FoundLen(found) == Cardinality(found)

\* take(3), as the program's "Longest 3 words" label would have it
Take3(ws) == SubSeq(ws, 1, IF Len(ws) < 3 THEN Len(ws) ELSE 3)

\* into_iter().take(6).collect()
Take6(ws) == SubSeq(ws, 1, IF Len(ws) < Cap THEN Len(ws) ELSE Cap)

----------------------------------------------------------------------------
(* Inputs *)

\* Letters on the boards of the component specification: 'A', 'S'
BoardChars == {65, 83}

\* Every rectangular board of at most MaxCells cells over BoardChars
Boards ==
    UNION {[1..r -> [1..c -> BoardChars]] :
             <<r, c>> \in {d \in (1..MaxCells) \X (1..MaxCells) :
                             d[1] * d[2] <= MaxCells}}

\* Candidate lines of a dictionary file: "sas", "SASA", long-s long-s
\* (4 bytes, upper-cases to "SS"), " as\t" (2 bytes once trimmed),
\* and a line of 17 letters
LinePool ==
    { <<115, 97, 115>>,
      <<83, 65, 83, 65>>,
      <<383, 383>>,
      <<32, 97, 115, 9>>,
      [i \in 1..17 |-> 97] }

\* Every file of at most MaxLines lines from LinePool, repeated lines included
Dictionaries == UNION {[1..n -> LinePool] : n \in 0..MaxLines}

\* The board of the example, as given on the command line: srps euim eahw wdzr
ExampleArgs ==
    << <<98>>,
       <<115, 114, 112, 115>>, <<101, 117, 105, 109>>,
       <<101, 97, 104, 119>>, <<119, 100, 122, 114>> >>

\* Argument lists of the program specification
ArgLists ==
    { ExampleArgs,
      \* one argument only
      << <<98>>, <<115, 114, 112, 115>> >>,
      \* second row of three letters: eui
      [ExampleArgs EXCEPT ![3] = <<101, 117, 105>>],
      \* second row of two 2-byte letters: e-acute e-acute
      [ExampleArgs EXCEPT ![3] = <<233, 233>>],
      \* first row of two 2-byte letters
      [ExampleArgs EXCEPT ![2] = <<233, 233>>],
      \* first row of three letters in 4 bytes: sharp s, a, b
      [ExampleArgs EXCEPT ![2] = <<223, 97, 98>>],
      \* four rows of one 4-byte char each: U+1F600
      << <<98>>, <<128512>>, <<128512>>, <<128512>>, <<128512>> >>,
      \* four rows of digits: 1234
      << <<98>>, <<49, 50, 51, 52>>, <<49, 50, 51, 52>>,
         <<49, 50, 51, 52>>, <<49, 50, 51, 52>> >> }

\* The words of the example: sea, rise, spur
ExampleLines == << <<115, 101, 97>>, <<114, 105, 115, 101>>, <<115, 112, 117, 114>> >>

\* Further lines: sue, rim, pure, spurs, " hip\t", user, sip
ExtraLines ==
    << <<115, 117, 101>>, <<114, 105, 109>>, <<112, 117, 114, 101>>,
       <<115, 112, 117, 114, 115>>, <<32, 104, 105, 112, 9>>,
       <<117, 115, 101, 114>>, <<115, 105, 112>> >>

\* The lines of ExtraLines whose index is in M, in the order of ExtraLines
RECURSIVE Pick(_, _)
Pick(M, i) ==
    IF i > Len(ExtraLines) THEN <<>>
    ELSE (IF i \in M THEN <<ExtraLines[i]>> ELSE <<>>) \o Pick(M, i + 1)

\* Dictionary files of the program specification
ExampleFiles == {ExampleLines \o Pick(M, 1) : M \in SUBSET (1..MaxExtra)}

----------------------------------------------------------------------------
(* Initial states *)

\* The component: BoggleSolver::new is called with a rectangular board
Init ==
    /\ pc = "new"
    /\ args = <<>>
    /\ \/ dict_ok = TRUE /\ words_txt \in Dictionaries
       \/ dict_ok = FALSE /\ words_txt = <<>>
    /\ line_no = 0
    /\ board \in Boards
    /\ trie = EmptyTrie
    /\ rows = 0
    /\ cols = 0
    /\ visited = <<>>
    /\ found_words = {}
    /\ start = 0
    /\ stack = <<>>
    /\ result = [count |-> 0, longest_6 |-> <<>>]

\* The program: main is entered with an argument list
InitMain ==
    /\ pc = "main"
    /\ args \in ArgLists
    /\ \/ dict_ok = TRUE /\ words_txt \in ExampleFiles
       \/ dict_ok = FALSE /\ words_txt = <<>>
    /\ line_no = 0
    /\ board = <<>>
    /\ trie = EmptyTrie
    /\ rows = 0
    /\ cols = 0
    /\ visited = <<>>
    /\ found_words = {}
    /\ start = 0
    /\ stack = <<>>
    /\ result = [count |-> 0, longest_6 |-> <<>>]

----------------------------------------------------------------------------
(* main *)

\* args.len() != 5: usage message, return
MainUsage ==
    /\ pc = "main"
    /\ Len(args) # ArgCount
    /\ pc' = "usage"
    /\ UNCHANGED <<args, dict_ok, words_txt, line_no, board, trie, rows, cols, visited,
                   found_words, start, stack, result>>

\* Some row_str.len() != 4: error message, return
MainRowError ==
    /\ pc = "main"
    /\ Len(args) = ArgCount
    /\ \E i \in 2..ArgCount : ByteLen(args[i]) # RowLen
    /\ pc' = "row_error"
    /\ UNCHANGED <<args, dict_ok, words_txt, line_no, board, trie, rows, cols, visited,
                   found_words, start, stack, result>>

\* Every row passes: the board is the upper-cased rows; BoggleSolver::new
MainBoard ==
    /\ pc = "main"
    /\ Len(args) = ArgCount
    /\ \A i \in 2..ArgCount : ByteLen(args[i]) = RowLen
    /\ board' = [i \in 1..(ArgCount - 1) |-> ToUppercase(args[i + 1])]
    /\ pc' = "new"
    /\ UNCHANGED <<args, dict_ok, words_txt, line_no, trie, rows, cols, visited,
                   found_words, start, stack, result>>

----------------------------------------------------------------------------
(* BoggleSolver::new *)

\* File::open(dict_path)? fails: Err, main prints the loading error
NewOpenError ==
    /\ pc = "new"
    /\ ~dict_ok
    /\ pc' = "load_error"
    /\ UNCHANGED <<args, dict_ok, words_txt, line_no, board, trie, rows, cols,
                   visited, found_words, start, stack, result>>

\* One iteration of `for line in reader.lines()`
NewLine ==
    /\ pc = "new"
    /\ dict_ok
    /\ line_no < Len(words_txt)
    /\ trie' = LoadLine(trie, words_txt[line_no + 1])
    /\ line_no' = line_no + 1
    /\ UNCHANGED <<pc, args, dict_ok, words_txt, board, rows, cols, visited,
                   found_words, start, stack, result>>

\* The lines are exhausted: rows, cols, Ok(BoggleSolver { .. })
NewOk ==
    /\ pc = "new"
    /\ dict_ok
    /\ line_no = Len(words_txt)
    /\ rows' = Len(board)
    /\ cols' = Len(board[1])
    /\ pc' = "ready"
    /\ UNCHANGED <<args, dict_ok, words_txt, line_no, board, trie, visited,
                   found_words, start, stack, result>>

----------------------------------------------------------------------------
(* BoggleSolver::solve and BoggleSolver::dfs *)

Top == stack[Len(stack)]

Pop == SubSeq(stack, 1, Len(stack) - 1)

\* A dfs call as it starts: its arguments; `k` is the position of its
\* neighbour loop and `at` tells whether it has passed its two early returns.
\* `on_entry` is the mask as the call found it (kept for the frame property,
\* the code holds no such copy).
Call(r, c, node, path) ==
    [r |-> r, c |-> c, node |-> node, path |-> path, at |-> "entry", k |-> 1,
     on_entry |-> visited]

\* found_words and visited are created
SolveBegin ==
    /\ pc = "ready"
    /\ found_words' = {}
    /\ visited' = [i \in 1..rows |-> [j \in 1..cols |-> FALSE]]
    /\ start' = 0
    /\ pc' = "solve"
    /\ UNCHANGED <<args, dict_ok, words_txt, line_no, board, trie, rows, cols, stack,
                   result>>

\* The next top-level call: self.dfs(r, c, &self.trie, String::new(), ..)
SolveCall ==
    /\ pc = "solve"
    /\ stack = <<>>
    /\ start < rows * cols
    /\ stack' = <<Call(start \div cols, start % cols, Root, <<>>)>>
    /\ start' = start + 1
    /\ UNCHANGED <<pc, args, dict_ok, words_txt, line_no, board, trie, rows, cols,
                   visited, found_words, result>>

\* Out of bounds or already visited: return
DfsReturn ==
    /\ pc = "solve"
    /\ stack # <<>>
    /\ Top.at = "entry"
    /\ Blocked(Top.r, Top.c, visited)
    /\ stack' = Pop
    /\ UNCHANGED <<pc, args, dict_ok, words_txt, line_no, board, trie, rows, cols,
                   visited, found_words, start, result>>

\* self.board[r][c] with c outside the row: the index panics
DfsPanic ==
    /\ pc = "solve"
    /\ stack # <<>>
    /\ Top.at = "entry"
    /\ ~Blocked(Top.r, Top.c, visited)
    /\ Top.c >= Len(board[Top.r + 1])
    /\ pc' = "panic"
    /\ UNCHANGED <<args, dict_ok, words_txt, line_no, board, trie, rows, cols,
                   visited, found_words, start, stack, result>>

\* The node has no child for the cell's letter: return
DfsPrune ==
    /\ pc = "solve"
    /\ stack # <<>>
    /\ Top.at = "entry"
    /\ ~Blocked(Top.r, Top.c, visited)
    /\ Top.c < Len(board[Top.r + 1])
    /\ Child(trie, Top.node, board[Top.r + 1][Top.c + 1]) = NoNode
    /\ stack' = Pop
    /\ UNCHANGED <<pc, args, dict_ok, words_txt, line_no, board, trie, rows, cols,
                   visited, found_words, start, result>>

\* The node has a child: mark the cell, extend the path, record a word
DfsEnter ==
    /\ pc = "solve"
    /\ stack # <<>>
    /\ Top.at = "entry"
    /\ ~Blocked(Top.r, Top.c, visited)
    /\ Top.c < Len(board[Top.r + 1])
    /\ LET ch == board[Top.r + 1][Top.c + 1]
           next_node == Child(trie, Top.node, ch)
           path == Append(Top.path, ch)
       IN /\ next_node # NoNode
          /\ visited' = Mark(visited, Top.r, Top.c)
          /\ found_words' = IF next_node \in trie.is_word
                            THEN found_words \cup {path} ELSE found_words
          /\ stack' = [stack EXCEPT ![Len(stack)] =
                          [@ EXCEPT !.node = next_node, !.path = path,
                                    !.at = "loop"]]
    /\ UNCHANGED <<pc, args, dict_ok, words_txt, line_no, board, trie, rows, cols,
                   start, result>>

\* The next of the 8 recursive calls
DfsRecurse ==
    /\ pc = "solve"
    /\ stack # <<>>
    /\ Top.at = "loop"
    /\ Top.k <= Len(Offsets)
    /\ LET d == Offsets[Top.k]
       IN stack' = Append([stack EXCEPT ![Len(stack)].k = @ + 1],
                          Call(Top.r + d[1], Top.c + d[2], Top.node, Top.path))
    /\ UNCHANGED <<pc, args, dict_ok, words_txt, line_no, board, trie, rows, cols,
                   visited, found_words, start, result>>

\* After the 8 calls: unmark the cell, return
DfsBacktrack ==
    /\ pc = "solve"
    /\ stack # <<>>
    /\ Top.at = "loop"
    /\ Top.k > Len(Offsets)
    /\ visited' = Unmark(visited, Top.r, Top.c)
    /\ stack' = Pop
    /\ UNCHANGED <<pc, args, dict_ok, words_txt, line_no, board, trie, rows, cols,
                   found_words, start, result>>

\* After the scan: count, collect, sort, take 6
SolveFinish ==
    /\ pc = "solve"
    /\ stack = <<>>
    /\ start = rows * cols
    /\ \E collected \in Orders(found_words) :
          result' = [count |-> FoundLen(found_words),
                     longest_6 |-> Take6(SortBy(collected))]
    /\ pc' = "done"
    /\ UNCHANGED <<args, dict_ok, words_txt, line_no, board, trie, rows, cols,
                   visited, found_words, start, stack>>

----------------------------------------------------------------------------
(* Specifications *)

\* BoggleSolver::new and solve on a rectangular board
Next ==
    \/ NewOpenError
    \/ NewLine
    \/ NewOk
    \/ SolveBegin
    \/ SolveCall
    \/ DfsReturn
    \/ DfsPrune
    \/ DfsEnter
    \/ DfsRecurse
    \/ DfsBacktrack
    \/ SolveFinish

Spec == Init /\ [][Next]_vars

\* The whole program, from main
NextMain ==
    \/ MainUsage
    \/ MainRowError
    \/ MainBoard
    \/ DfsPanic
    \/ Next

SpecMain == InitMain /\ [][NextMain]_vars

----------------------------------------------------------------------------
(* Vocabulary of the properties *)

Cells == (0..(rows - 1)) \X (0..(cols - 1))

Letter(cell) == board[cell[1] + 1][cell[2] + 1]

Abs(x) == IF x < 0 THEN -x ELSE x

\* 8-directional adjacency of two cells
Adjacent(a, b) == a # b /\ Abs(a[1] - b[1]) <= 1 /\ Abs(a[2] - b[2]) <= 1

\* The number of paths of pairwise distinct, consecutively adjacent cells
\* that start at `cell`, avoid `used` and spell word[i..]
RECURSIVE PathsFrom(_, _, _, _)
PathsFrom(word, i, cell, used) ==
    IF cell \in used \/ Letter(cell) # word[i] THEN 0
    ELSE IF i = Len(word) THEN 1
    ELSE LET nbs == {n \in Cells : Adjacent(cell, n)}
             Sum[S \in SUBSET nbs] ==
                 IF S = {} THEN 0
                 ELSE LET n == CHOOSE x \in S : TRUE
                      IN PathsFrom(word, i + 1, n, used \cup {cell}) + Sum[S \ {n}]
         IN Sum[nbs]

\* Some path from `cell` avoiding `used` spells word[i..]
RECURSIVE TraceFrom(_, _, _, _)
TraceFrom(word, i, cell, used) ==
    /\ cell \notin used
    /\ Letter(cell) = word[i]
    /\ \/ i = Len(word)
       \/ \E n \in Cells :
             Adjacent(cell, n) /\ TraceFrom(word, i + 1, n, used \cup {cell})

\* The word can be traced on the board
Traceable(word) ==
    word # <<>> /\ \E cell \in Cells : TraceFrom(word, 1, cell, {})

\* The number of distinct paths that spell the word
RECURSIVE PathCountOver(_, _)
PathCountOver(word, S) ==
    IF S = {} THEN 0
    ELSE LET cell == CHOOSE x \in S : TRUE
         IN PathsFrom(word, 1, cell, {}) + PathCountOver(word, S \ {cell})

PathCount(word) == IF word = <<>> THEN 0 ELSE PathCountOver(word, Cells)

\* The words BoggleSolver::new has inserted so far
InsertedWords ==
    {ToUppercase(Trim(words_txt[i])) :
        i \in {j \in 1..line_no : Accepted(Trim(words_txt[j]))}}

\* The node reached from node n by spelling path, NoNode when there is none
RECURSIVE WalkFrom(_, _, _)
WalkFrom(t, n, path) ==
    IF path = <<>> \/ n = NoNode THEN n
    ELSE WalkFrom(t, Child(t, n, Head(path)), Tail(path))

Range(f) == {f[i] : i \in DOMAIN f}

Min(a, b) == IF a < b THEN a ELSE b

\* The board of the example: SRPS / EUIM / EAHW / WDZR
ExampleBoard ==
    << <<83, 82, 80, 83>>, <<69, 85, 73, 77>>,
       <<69, 65, 72, 87>>, <<87, 68, 90, 82>> >>

SEA == <<83, 69, 65>>

RISE == <<82, 73, 83, 69>>

SPUR == <<83, 80, 85, 82>>

----------------------------------------------------------------------------
(* C1 *)

\* C1: the words solve() collects are exactly the inserted words that some
\* path of pairwise distinct, consecutively 8-adjacent cells spells: while
\* the scan runs every collected word is such a word, and when it has ended
\* no such word is missing.
C1_FoundExactlyTraceable ==
    /\ pc \in {"solve", "done"} =>
          \A w \in found_words : w \in InsertedWords /\ Traceable(w)
    /\ pc = "done" =>
          found_words = {w \in InsertedWords : Traceable(w)}

\* A finished scan that found a word and left out an inserted word whose
\* letters are all on the board
C1_Witness ==
    /\ pc = "done"
    /\ found_words # {}
    /\ \E w \in InsertedWords :
          /\ ~Traceable(w)
          /\ \A i \in 1..Len(w) : \E cell \in Cells : Letter(cell) = w[i]

----------------------------------------------------------------------------
(* C2 *)

\* C2 as stated: on the example board SEA, RISE and SPUR can each be traced,
\* so with a dictionary that holds the three, solve() counts at least 3 words
\* and has found all three.
C2_Original ==
    (pc = "done" /\ board = ExampleBoard /\ {SEA, RISE, SPUR} \subseteq InsertedWords) =>
        /\ Traceable(SEA) /\ Traceable(RISE) /\ Traceable(SPUR)
        /\ result.count >= 3
        /\ {SEA, RISE, SPUR} \subseteq found_words

\* C2 amended: on the example board SEA and SPUR can be traced and RISE
\* cannot (the only S next to the I of R-I is the corner S, which touches no
\* E), so with a dictionary that holds the three, solve() counts at least 2
\* words, has found SEA and SPUR and has not found RISE.
C2_ExampleBoard ==
    (pc = "done" /\ board = ExampleBoard /\ {SEA, RISE, SPUR} \subseteq InsertedWords) =>
        /\ Traceable(SEA) /\ Traceable(SPUR) /\ ~Traceable(RISE)
        /\ result.count >= 2
        /\ {SEA, SPUR} \subseteq found_words
        /\ RISE \notin found_words

\* solve() has returned on the example board with the three words loaded
C2_Witness ==
    /\ pc = "done"
    /\ board = ExampleBoard
    /\ {SEA, RISE, SPUR} \subseteq InsertedWords
    /\ result.count >= 2

----------------------------------------------------------------------------
(* C3 *)

\* C3: total_count is the number of distinct words found, each word counted
\* once however many paths spell it, and it is the size of the whole found
\* set, not of the capped list.
C3_CountIsDistinctWords ==
    pc = "done" =>
        /\ result.count = Cardinality(found_words)
        /\ result.count = Cardinality({w \in InsertedWords : Traceable(w)})

\* More than 6 words found, one of them spelled by two paths or more
C3_Witness ==
    /\ pc = "done"
    /\ result.count > Cap
    /\ Len(result.longest_6) < result.count
    /\ \E w \in found_words : PathCount(w) >= 2

----------------------------------------------------------------------------
(* C4 *)

\* C4: the returned list is the leading part of the found words by
\* descending length (len(), the UTF-8 length), ties by ascending
\* lexicographic order: each entry is longer than the next or as long and
\* lexicographically smaller, and no found word outside the list ranks
\* before a word in it.
C4_Ranking ==
    pc = "done" =>
        LET top == result.longest_6
            Ranks(a, b) ==
                \/ ByteLen(a) > ByteLen(b)
                \/ ByteLen(a) = ByteLen(b) /\ LexLess(a, b)
        IN /\ Range(top) \subseteq found_words
           /\ \A i \in 1..(Len(top) - 1) : Ranks(top[i], top[i + 1])
           /\ \A w \in found_words \ Range(top) :
                 \A i \in 1..Len(top) : ~Ranks(w, top[i])

\* A list with a step down in length and a tie broken by the letters, and a
\* found word left out
C4_Witness ==
    /\ pc = "done"
    /\ found_words \ Range(result.longest_6) # {}
    /\ \E i \in 1..(Len(result.longest_6) - 1) :
          Len(result.longest_6[i]) > Len(result.longest_6[i + 1])
    /\ \E i \in 1..(Len(result.longest_6) - 1) :
          Len(result.longest_6[i]) = Len(result.longest_6[i + 1])

----------------------------------------------------------------------------
(* C5 *)

\* C5: the returned list has min(total_count, 6) entries, all different.
C5_CapLength ==
    pc = "done" =>
        LET top == result.longest_6
        IN /\ Len(top) = Min(result.count, Cap)
           /\ \A i, j \in 1..Len(top) : i # j => top[i] # top[j]

\* More words found than the cap: exactly 6 returned
C5_Witness ==
    /\ pc = "done"
    /\ result.count > Cap
    /\ Len(result.longest_6) = Cap

----------------------------------------------------------------------------
(* C6 *)

\* C6: every dfs call, at any depth and on any exit path, returns with the
\* mask equal to what it was when the call started; the mask is all-false
\* whenever no dfs call is active (before, between and after the top-level
\* traversals).
C6_MaskRestored ==
    /\ [][Len(stack') < Len(stack) => visited' = Top.on_entry]_vars
    /\ [](pc \in {"solve", "done"} /\ stack = <<>> =>
            \A i \in 1..rows : \A j \in 1..cols : ~visited[i][j])

\* A call at depth 2 or more that has marked its cell and has had a callee
\* return (the pending return then restores the mask at depth)
C6_Witness ==
    /\ pc = "solve"
    /\ Len(stack) >= 3
    /\ Top.at = "loop"
    /\ Top.k > Len(Offsets)
    /\ Top.on_entry # visited

----------------------------------------------------------------------------
(* C7 *)

\* The words the candidate lines insert
InsertableWords ==
    {ToUppercase(Trim(l)) : l \in {x \in LinePool : Accepted(Trim(x))}}

\* C7: inserting a word a second time leaves the trie unchanged, at any
\* point of any sequence of inserts: a word inserted earlier, and any word
\* inserted twice in a row. The trie changes only while BoggleSolver::new
\* loads the file, so the tries to look at are those of that phase.
C7_InsertIdempotent ==
    pc \in {"new", "ready"} =>
        /\ \A w \in InsertedWords : Insert(trie, w) = trie
        /\ \A w \in InsertableWords : Insert(Insert(trie, w), w) = Insert(trie, w)

\* The same line loaded twice, and the word is in the trie
C7_Witness ==
    /\ line_no = 2
    /\ words_txt[1] = words_txt[2]
    /\ Accepted(Trim(words_txt[1]))
    /\ WalkFrom(trie, Root, ToUppercase(Trim(words_txt[1]))) \in trie.is_word

----------------------------------------------------------------------------
(* C8 *)

\* C8 as stated: no word shorter than 3 or longer than 16 is ever in the
\* found set; and when every line of the dictionary is shorter than 3 or
\* longer than 16, nothing is inserted and solve() returns 0 and no words.
\* Length is taken as len() (UTF-8 bytes), the reading the code's filter
\* uses; a found word of fewer than 3 bytes has fewer than 3 letters too.
C8_Original ==
    /\ \A w \in found_words : ByteLen(w) >= MinWordLen /\ ByteLen(w) <= MaxWordLen
    /\ (\A i \in 1..Len(words_txt) :
           \/ ByteLen(Trim(words_txt[i])) < MinWordLen
           \/ ByteLen(Trim(words_txt[i])) > MaxWordLen) =>
          /\ trie = EmptyTrie
          /\ pc = "done" => result = [count |-> 0, longest_6 |-> <<>>]

----------------------------------------------------------------------------
(* C9 *)

\* Letters of the model's characters: A-Z, a-z, E-acute, e-acute, sharp s, long s
IsLetter(ch) ==
    (ch >= 65 /\ ch <= 90) \/ (ch >= 97 /\ ch <= 122) \/ ch \in {201, 233, 223, 383}

IsUppercaseLetter(ch) == (ch >= 65 /\ ch <= 90) \/ ch = 201

\* C9 as stated: the solver is built and the search run only for four
\* arguments of four letters each, the board that reaches solve() is 4 x 4
\* upper-case letters, and dfs never indexes outside a row.
C9_Original ==
    /\ pc \in {"new", "load_error", "ready", "solve", "done", "panic"} =>
          /\ Len(args) = ArgCount
          /\ \A i \in 2..ArgCount :
                Len(args[i]) = RowLen /\ \A j \in 1..Len(args[i]) : IsLetter(args[i][j])
    /\ pc \in {"solve", "done", "panic"} =>
          /\ Len(board) = RowLen
          /\ \A i \in 1..Len(board) :
                Len(board[i]) = RowLen
                /\ \A j \in 1..Len(board[i]) : IsUppercaseLetter(board[i][j])
    /\ pc # "panic"

----------------------------------------------------------------------------
(* C10 *)

\* The calls that have passed their early returns, outermost first
ActiveDepth == Cardinality({i \in 1..Len(stack) : stack[i].at = "loop"})

\* What C10 says of the mask, the path and the node
C10_Chain ==
    pc = "solve" =>
        LET n == ActiveDepth
            cell(i) == <<stack[i].r, stack[i].c>>
        IN \* a call that has not yet passed its checks is the innermost one
           /\ \A i \in 1..Len(stack) : stack[i].at = "loop" <=> i <= n
           /\ Len(stack) <= n + 1
           \* the marked cells are the cells of the chain
           /\ \A c \in Cells :
                 visited[c[1] + 1][c[2] + 1] <=> \E i \in 1..n : cell(i) = c
           /\ \A i \in 1..n : cell(i) \in Cells
           /\ \A i, j \in 1..n : i # j => cell(i) # cell(j)
           /\ \A i \in 1..(n - 1) : Adjacent(cell(i), cell(i + 1))
           \* the path is the letters of the chain, the node spells the path
           /\ \A i \in 1..n :
                 /\ stack[i].path = [j \in 1..i |-> Letter(cell(j))]
                 /\ stack[i].node = WalkFrom(trie, Root, stack[i].path)
                 /\ stack[i].node # NoNode
           /\ stack # <<>> =>
                 /\ Len(Top.path) = n
                 /\ Top.path = [j \in 1..n |-> Letter(cell(j))]
                 /\ Top.node = WalkFrom(trie, Root, Top.path)

\* C10 as stated: ... hence the recursion depth never exceeds rows x cols.
C10_Original ==
    /\ C10_Chain
    /\ pc = "solve" => Len(stack) <= rows * cols

\* C10 amended: ... hence the calls that have marked a cell never number
\* more than rows x cols, and the recursion depth never exceeds
\* rows x cols + 1 (the innermost call may be one that returns at once).
C10_ChainAndDepth ==
    /\ C10_Chain
    /\ pc = "solve" => ActiveDepth <= rows * cols /\ Len(stack) <= rows * cols + 1

\* Every cell of a board of 3 cells or more is on the path, and one more
\* call is active
C10_Witness ==
    /\ pc = "solve"
    /\ rows * cols >= 3
    /\ ActiveDepth = rows * cols
    /\ Len(stack) = rows * cols + 1

====
